---- MODULE Spec2Model ----
(***************************************************************************)
(* Graph construction and incremental semantic merge of the Tektite        *)
(* webview (webview-ui/src/App.tsx, constants.ts).                         *)
(*                                                                         *)
(* Representation of JavaScript values:                                    *)
(*   - a string without line breaks is the sequence of its characters;     *)
(*   - a text (string with line breaks) is the non-empty sequence of its   *)
(*     lines, i.e. the value of text.split('\n'); join('\n') of an array   *)
(*     whose elements are texts is the concatenation of their line         *)
(*     sequences, so split/join are computed, not assumed;                 *)
(*   - `fn-${name}` / `file-${name}` are the pairs <<"fn", name>> and      *)
(*     <<"file", name>> (the two prefixes never produce the same string);  *)
(*   - an absent optional field is Undefined for isStale and NoEmbedding   *)
(*     for embedding.                                                      *)
(***************************************************************************)
EXTENDS Integers, Sequences, FiniteSets, TLC

\* ------------------------------------------------------------------------
\* Characters and lines
\* ------------------------------------------------------------------------

Letters == {"a","b","c","d","e","f","g","h","i","j","k","l","m","n","o","p",
            "q","r","s","t","u","v","w","x","y","z"}

Digits == {"0","1","2","3","4","5","6","7","8","9"}

\* \s inside one line
WS == {" ", "\t"}

\* [a-zA-Z_]
IdStart == Letters \cup {"_"}

\* [a-zA-Z0-9_]  (also the \w class that decides \b)
IdChar == Letters \cup Digits \cup {"_"}

StartsWith(s, p) == Len(s) >= Len(p) /\ SubSeq(s, 1, Len(p)) = p

EndsWith(s, p) == Len(s) >= Len(p) /\ SubSeq(s, Len(s) - Len(p) + 1, Len(s)) = p

Includes(s, p) == \E i \in 1..(Len(s) - Len(p) + 1) : SubSeq(s, i, i + Len(p) - 1) = p

\* least index j >= i with j past the end of s or s[j] not in S
SkipWhile(s, i, S) ==
    IF \E j \in i..Len(s) : s[j] \notin S
    THEN CHOOSE j \in i..Len(s) : s[j] \notin S /\ \A k \in i..(j - 1) : s[k] \in S
    ELSE Len(s) + 1

\* least index j >= i with s[j] = c, or Len(s)+1
IndexOfFrom(s, i, c) ==
    IF \E j \in i..Len(s) : s[j] = c
    THEN CHOOSE j \in i..Len(s) : s[j] = c /\ \A k \in i..(j - 1) : s[k] # c
    ELSE Len(s) + 1

\* line.trim() === ''
IsBlank(line) == \A i \in 1..Len(line) : line[i] \in WS

\* !(startsWith(' ') || startsWith('\t') || startsWith('#') || startsWith('@'))
NotContinuation(line) == Len(line) = 0 \/ line[1] \notin {" ", "\t", "#", "@"}

\* a line that ends a function block (constants.ts 246-253, App.tsx 50)
Terminates(line) == ~IsBlank(line) /\ NotContinuation(line)

NoMatch == <<>>

kwDef == <<"d", "e", "f">>

\* /^def\s+([a-zA-Z_][a-zA-Z0-9_]*)\s*\(([^)]*)\):/  -> match[1] or NoMatch
functionRegex(line) ==
    IF ~(StartsWith(line, kwDef) /\ Len(line) >= 4 /\ line[4] \in WS) THEN NoMatch
    ELSE LET n0 == SkipWhile(line, 4, WS)
             n1 == SkipWhile(line, n0, IdChar)
             p0 == SkipWhile(line, n1, WS)
             p1 == IndexOfFrom(line, p0 + 1, ")")
         IN  IF /\ n0 <= Len(line) /\ line[n0] \in IdStart
                /\ p0 <= Len(line) /\ line[p0] = "("
                /\ p1 + 1 <= Len(line) /\ line[p1] = ")" /\ line[p1 + 1] = ":"
             THEN SubSeq(line, n0, n1 - 1)
             ELSE NoMatch

\* new RegExp(`^def\\s+${funcName}\\s*\\(`).test(line)
replaceRegexTest(line, funcName) ==
    /\ StartsWith(line, kwDef) /\ Len(line) >= 4 /\ line[4] \in WS
    /\ \E n0 \in 5..Len(line) :
          /\ \A k \in 4..(n0 - 1) : line[k] \in WS
          /\ Len(line) >= n0 + Len(funcName)
          /\ SubSeq(line, n0, n0 + Len(funcName) - 1) = funcName
          /\ LET p0 == SkipWhile(line, n0 + Len(funcName), WS)
             IN  p0 <= Len(line) /\ line[p0] = "("

\* mutant: the pattern without its leading \b
callRegexLine_NoBoundary(line, targetName) ==
    \E i \in 1..(Len(line) - Len(targetName)) :
        /\ SubSeq(line, i, i + Len(targetName) - 1) = targetName
        /\ line[i + Len(targetName)] = "("

\* new RegExp(`\\b${targetName}\\(`).test(line) for one line
callRegexLine(line, targetName) ==
    \E i \in 1..(Len(line) - Len(targetName)) :
        /\ SubSeq(line, i, i + Len(targetName) - 1) = targetName
        /\ line[i + Len(targetName)] = "("
        /\ (i = 1 \/ line[i - 1] \notin IdChar)

\* callRegex.test(text): the pattern has no line break, so a match lies in one line
callRegexTest(text, targetName) == \E k \in 1..Len(text) : callRegexLine(text[k], targetName)

\* ------------------------------------------------------------------------
\* Values of optional fields, node and edge kinds
\* ------------------------------------------------------------------------

\* isStale?: boolean  -- "true", "false" or absent
Undefined == "undefined"

StaleTrue == "true"

StaleFalse == "false"

\* embedding?: number[]  -- absent (the Embedder's vectors are non-empty)
NoEmbedding == <<>>

MODULE_T == "MODULE"

FILE_T == "FILE"

FUNCTION_T == "FUNCTION"

IMPORTS == "IMPORTS"

CALLS == "CALLS"

SEMANTIC == "SEMANTIC"

fileId(filename) == <<"file", filename>>

fnId(funcName) == <<"fn", funcName>>

extPy == <<".", "p", "y">>

extMd == <<".", "m", "d">>

extJson == <<".", "j", "s", "o", "n">>

strMain == <<"m", "a", "i", "n">>

strIndex == <<"i", "n", "d", "e", "x">>

strRecursive == <<"r", "e", "c", "u", "r", "s", "i", "v", "e">>

RECURSIVE Gcd(_, _)
Gcd(a, b) == IF b = 0 THEN a ELSE Gcd(b, a % b)

RECURSIVE Flatten(_)
Flatten(ss) == IF ss = <<>> THEN <<>> ELSE Head(ss) \o Flatten(Tail(ss))

\* ------------------------------------------------------------------------
\* Graph Builder: generateGraphFromFiles (constants.ts)
\* ------------------------------------------------------------------------

ORBIT_RADIUS == 350

jitter == 80

\* Math.random(): the k-th draw of one build, in hundredths, from the stream rnd
RandomDraw(rnd, k) == rnd[((k - 1) % Len(rnd)) + 1]

\* (fileIndex / totalFiles) * 2 * Math.PI as the reduced fraction of a turn;
\* <<0, 0>> is the centre (0,0) given to main/index files
SeedAngle(filename, fileIndex, totalFiles) ==
    IF Includes(filename, strMain) \/ Includes(filename, strIndex) THEN <<0, 0>>
    ELSE LET g == Gcd(fileIndex, totalFiles)
         IN  <<fileIndex \div g, totalFiles \div g>>

\* x = Math.cos(angle) * ORBIT_RADIUS + offset, kept symbolic; offset in hundredths
SeedX(angle, offset) == [fn |-> "cos", angle |-> angle, radius |-> ORBIT_RADIUS, offset |-> offset]

SeedY(angle, offset) == [fn |-> "sin", angle |-> angle, radius |-> ORBIT_RADIUS, offset |-> offset]

\* Math.random() * jitter - jitter/2, in hundredths
JitterOffset(r) == r * jitter - (jitter \div 2) * 100

\* Math.floor(Math.random() * 20) + 1
RandomComplexity(r) == ((r * 20) \div 100) + 1

LanguageOf(filename) ==
    IF EndsWith(filename, extPy) THEN "python"
    ELSE IF EndsWith(filename, extMd) THEN "markdown"
    ELSE IF EndsWith(filename, extJson) THEN "json"
    ELSE "text"

\* mutant: a blank line ends the block too
BodyEnd_StopsAtBlank(lines, i) ==
    IF \E j \in (i + 1)..Len(lines) : NotContinuation(lines[j])
    THEN CHOOSE j \in (i + 1)..Len(lines) :
            NotContinuation(lines[j]) /\ \A k \in (i + 1)..(j - 1) : ~NotContinuation(lines[k])
    ELSE Len(lines) + 1

\* first line after i that ends the block starting at line i (or Len+1)
BodyEnd(lines, i) ==
    IF \E j \in (i + 1)..Len(lines) : Terminates(lines[j])
    THEN CHOOSE j \in (i + 1)..Len(lines) :
            Terminates(lines[j]) /\ \A k \in (i + 1)..(j - 1) : ~Terminates(lines[k])
    ELSE Len(lines) + 1

\* the function blocks of one python file, in line order
RECURSIVE ScanFunctions(_, _)
ScanFunctions(lines, i) ==
    IF i > Len(lines) THEN <<>>
    ELSE LET funcName == functionRegex(lines[i])
         IN  IF funcName = NoMatch THEN ScanFunctions(lines, i + 1)
             ELSE <<[funcName |-> funcName,
                     fullCode |-> SubSeq(lines, i, BodyEnd(lines, i) - 1)]>>
                  \o ScanFunctions(lines, i + 1)

\* mutant: function blocks are parsed in files of every language
FunctionsOfFile_AnyLanguage(file) == ScanFunctions(file.code, 1)

FunctionsOfFile(file) ==
    IF EndsWith(file.name, extPy) THEN ScanFunctions(file.code, 1) ELSE <<>>

RECURSIVE CountFunctionsBefore(_, _)
CountFunctionsBefore(files, k) ==
    IF k <= 1 THEN 0
    ELSE CountFunctionsBefore(files, k - 1) + Len(FunctionsOfFile(files[k - 1]))

FileNode(file, fileIndex, totalFiles) ==
    LET isPython == EndsWith(file.name, extPy)
        angle == SeedAngle(file.name, fileIndex, totalFiles)
    IN  [id |-> fileId(file.name),
         type |-> IF isPython THEN MODULE_T ELSE FILE_T,
         label |-> file.name,
         language |-> LanguageOf(file.name),
         x |-> SeedX(angle, 0),
         y |-> SeedY(angle, 0),
         code |-> file.code,
         complexity |-> IF isPython THEN 10 ELSE 0,
         why |-> Undefined,
         embedding |-> NoEmbedding,
         isStale |-> Undefined]

\* mutant: the seed angle of a function node is drawn at random too
FunctionNode_RandomAngle(fn, file, fileIndex, totalFiles, n, rnd) ==
    LET angle == <<RandomDraw(rnd, 3 * n), 100>>
    IN  [id |-> fnId(fn.funcName),
         type |-> FUNCTION_T,
         label |-> fn.funcName,
         language |-> "python",
         code |-> fn.fullCode,
         complexity |-> RandomComplexity(RandomDraw(rnd, 3 * n - 2)),
         why |-> IF Includes(fn.funcName, strRecursive)
                 THEN "Recursive Implementation" ELSE "Logic Block",
         x |-> SeedX(angle, JitterOffset(RandomDraw(rnd, 3 * n - 1))),
         y |-> SeedY(angle, JitterOffset(RandomDraw(rnd, 3 * n))),
         embedding |-> NoEmbedding,
         isStale |-> Undefined]

\* n-th function node of the build (n counts function nodes from 1); it takes
\* the draws 3n-2, 3n-1, 3n of the build's random stream
FunctionNode(fn, file, fileIndex, totalFiles, n, rnd) ==
    LET angle == SeedAngle(file.name, fileIndex, totalFiles)
    IN  [id |-> fnId(fn.funcName),
         type |-> FUNCTION_T,
         label |-> fn.funcName,
         language |-> "python",
         code |-> fn.fullCode,
         complexity |-> RandomComplexity(RandomDraw(rnd, 3 * n - 2)),
         why |-> IF Includes(fn.funcName, strRecursive)
                 THEN "Recursive Implementation" ELSE "Logic Block",
         x |-> SeedX(angle, JitterOffset(RandomDraw(rnd, 3 * n - 1))),
         y |-> SeedY(angle, JitterOffset(RandomDraw(rnd, 3 * n))),
         embedding |-> NoEmbedding,
         isStale |-> Undefined]

ImportLink(funcName, filename) ==
    [source |-> fnId(funcName), target |-> fileId(filename), type |-> IMPORTS, weight |-> Undefined]

CallLink(src, targetName) ==
    [source |-> src, target |-> fnId(targetName), type |-> CALLS, weight |-> Undefined]

\* 1. pass, nodes: per file the file node followed by its function nodes
NodesOfFile(files, k, rnd) ==
    LET fns == FunctionsOfFile(files[k])
        base == CountFunctionsBefore(files, k)
    IN  <<FileNode(files[k], k - 1, Len(files))>>
        \o [i \in 1..Len(fns) |->
               FunctionNode(fns[i], files[k], k - 1, Len(files), base + i, rnd)]

\* 1. pass, links: one Imports edge per function block
ImportsOfFile(file) ==
    LET fns == FunctionsOfFile(file)
    IN  [i \in 1..Len(fns) |-> ImportLink(fns[i].funcName, file.name)]

\* keys of the Map definedFunctions in insertion order (a repeated set() keeps
\* the key's first position)
RECURSIVE DefinedFunctions(_)
DefinedFunctions(names) ==
    IF names = <<>> THEN <<>>
    ELSE LET init == DefinedFunctions(SubSeq(names, 1, Len(names) - 1))
             last == names[Len(names)]
         IN  IF \E i \in 1..Len(init) : init[i] = last THEN init ELSE Append(init, last)

\* the recursive check uses code.split('\n').slice(1).join('\n')
bodyOnly(code) == IF Len(code) <= 1 THEN <<<<>>>> ELSE Tail(code)

\* mutant: the recursive check tests the whole code, header line included
CallsTest_WithHeader(sourceNode, targetName) == callRegexTest(sourceNode.code, targetName)

CallsTest(sourceNode, targetName) ==
    IF sourceNode.label = targetName
    THEN callRegexTest(bodyOnly(sourceNode.code), targetName)
    ELSE callRegexTest(sourceNode.code, targetName)

\* 2. pass: for every function node, for every defined name, in order
CallLinksOf(sourceNode, defined) ==
    LET hits == SelectSeq(defined, LAMBDA targetName : CallsTest(sourceNode, targetName))
    IN  [i \in 1..Len(hits) |-> CallLink(sourceNode.id, hits[i])]

generateGraphFromFiles(files, rnd) ==
    LET nodes == Flatten([k \in 1..Len(files) |-> NodesOfFile(files, k, rnd)])
        imports == Flatten([k \in 1..Len(files) |-> ImportsOfFile(files[k])])
        funcNodes == SelectSeq(nodes, LAMBDA n : n.type = FUNCTION_T)
        defined == DefinedFunctions([i \in 1..Len(funcNodes) |-> funcNodes[i].label])
        calls == Flatten([i \in 1..Len(funcNodes) |-> CallLinksOf(funcNodes[i], defined)])
    IN  [nodes |-> nodes, links |-> imports \o calls]


\* ------------------------------------------------------------------------
\* Similarity helpers (App.tsx 13-19, 287-299)
\* ------------------------------------------------------------------------

RECURSIVE DotProduct(_, _)
DotProduct(vecA, vecB) ==
    IF vecA = <<>> THEN 0
    ELSE Head(vecA) * Head(vecB) + DotProduct(Tail(vecA), Tail(vecB))

\* mutant: the quotient is returned without the zero-magnitude guard
cosineSimilarity_Unguarded(vecA, vecB) ==
    <<DotProduct(vecA, vecB), DotProduct(vecA, vecA) * DotProduct(vecB, vecB)>>

\* the real number num / sqrt(densq); 0 is <<0, 1>>, and <<0, 0>> would be NaN
cosineSimilarity(vecA, vecB) ==
    LET dotProduct == DotProduct(vecA, vecB)
        magSqA == DotProduct(vecA, vecA)
        magSqB == DotProduct(vecB, vecB)
    IN  IF magSqA * magSqB = 0 THEN <<0, 1>> ELSE <<dotProduct, magSqA * magSqB>>

\* mutant: the threshold test is not strict
AboveThreshold_NotStrict(score) == score[1] > 0 /\ 16 * score[1] * score[1] >= 9 * score[2]

\* score > 0.75 for score = num / sqrt(densq)
AboveThreshold(score) == score[1] > 0 /\ 16 * score[1] * score[1] > 9 * score[2]

SemanticLink(a, b) ==
    [source |-> a.id, target |-> b.id, type |-> SEMANTIC,
     weight |-> cosineSimilarity(a.embedding, b.embedding)]

\* the double loop i < j over funcNodes, in emission order
RECURSIVE SemanticLinks(_)
SemanticLinks(funcNodes) ==
    IF Len(funcNodes) <= 1 THEN <<>>
    ELSE LET a == Head(funcNodes)
             rest == Tail(funcNodes)
             near == SelectSeq(rest, LAMBDA b :
                        AboveThreshold(cosineSimilarity(a.embedding, b.embedding)))
         IN  [j \in 1..Len(near) |-> SemanticLink(a, near[j])] \o SemanticLinks(rest)

\* ------------------------------------------------------------------------
\* Identity merge (App.tsx 186-210)
\* ------------------------------------------------------------------------

\* prevGraph.nodes.find(old => old.id === id): index of the first match, 0 if none
FindIndex(nodes, id) ==
    IF \E i \in 1..Len(nodes) : nodes[i].id = id
    THEN CHOOSE i \in 1..Len(nodes) : nodes[i].id = id /\ \A k \in 1..(i - 1) : nodes[k].id # id
    ELSE 0

HasNode(nodes, id) == \E i \in 1..Len(nodes) : nodes[i].id = id

\* mutant: a node whose code changed keeps the isStale value it had
MergeNode_KeepsFlag(prevGraph, newNode) ==
    LET o == FindIndex(prevGraph.nodes, newNode.id)
    IN  IF o # 0
        THEN [newNode EXCEPT !.embedding = prevGraph.nodes[o].embedding,
                             !.isStale = prevGraph.nodes[o].isStale]
        ELSE [newNode EXCEPT !.isStale = StaleTrue]

MergeNode(prevGraph, newNode) ==
    LET o == FindIndex(prevGraph.nodes, newNode.id)
    IN  IF o # 0
        THEN LET oldNode == prevGraph.nodes[o]
             IN  IF oldNode.code = newNode.code
                 THEN [newNode EXCEPT !.embedding = oldNode.embedding, !.isStale = oldNode.isStale]
                 ELSE [newNode EXCEPT !.embedding = oldNode.embedding, !.isStale = StaleTrue]
        ELSE [newNode EXCEPT !.isStale = StaleTrue]

mergedNodes(prevGraph, newStructure) ==
    [i \in 1..Len(newStructure.nodes) |-> MergeNode(prevGraph, newStructure.nodes[i])]

\* mutant: previous Semantic edges are carried over without the endpoint test
validSemanticEdges_Unfiltered(prevGraph, merged) ==
    SelectSeq(prevGraph.links, LAMBDA l : l.type = SEMANTIC)

\* mutant: only the source endpoint of a previous Semantic edge is tested
validSemanticEdges_SourceOnly(prevGraph, merged) ==
    SelectSeq(prevGraph.links, LAMBDA l : l.type = SEMANTIC /\ HasNode(merged, l.source))

validSemanticEdges(prevGraph, merged) ==
    SelectSeq(prevGraph.links, LAMBDA l :
        l.type = SEMANTIC /\ HasNode(merged, l.source) /\ HasNode(merged, l.target))

\* mutant: every previous edge with live endpoints is carried over, not only Semantic ones
MergeGraph_KeepsOldStructure(prevGraph, newStructure) ==
    LET merged == mergedNodes(prevGraph, newStructure)
    IN  [nodes |-> merged,
         links |-> newStructure.links
                   \o SelectSeq(prevGraph.links, LAMBDA l :
                          HasNode(merged, l.source) /\ HasNode(merged, l.target))]

MergeGraph(prevGraph, newStructure) ==
    LET merged == mergedNodes(prevGraph, newStructure)
    IN  [nodes |-> merged,
         links |-> newStructure.links \o validSemanticEdges(prevGraph, merged)]

\* ------------------------------------------------------------------------
\* Staleness tracker (App.tsx 250-252, 434-436)
\* ------------------------------------------------------------------------

\* !n.embedding || n.isStale   (an absent isStale is falsy)
NeedsEmbedding(n) == n.embedding = NoEmbedding \/ n.isStale = StaleTrue

nodesToUpdate(graph) ==
    SelectSeq(graph.nodes, LAMBDA n :
        n.type = FUNCTION_T /\ n.language = "python" /\ n.code # <<<<>>>> /\ NeedsEmbedding(n))

pendingUpdates(graph) ==
    Len(SelectSeq(graph.nodes, LAMBDA n :
        n.type = FUNCTION_T /\ n.language = "python" /\ NeedsEmbedding(n)))

\* ------------------------------------------------------------------------
\* Text sent to the Embedder (App.tsx 22-32, 264-265)
\* ------------------------------------------------------------------------

\* line.replace(/^def\s+.*?:/, ''): a line starting with def and white space
\* loses everything up to its first colon past the white space
StripHeader(line) ==
    IF StartsWith(line, kwDef) /\ Len(line) >= 5 /\ line[4] \in WS
          /\ IndexOfFrom(line, 5, ":") <= Len(line)
    THEN SubSeq(line, IndexOfFrom(line, 5, ":") + 1, Len(line))
    ELSE line

\* line.replace(/#.*$/, '')
StripComment(line) == SubSeq(line, 1, IndexOfFrom(line, 1, "#") - 1)

TrimStart(line) == SubSeq(line, SkipWhile(line, 1, WS), Len(line))

RECURSIVE TrimEnd(_)
TrimEnd(line) ==
    IF Len(line) > 0 /\ line[Len(line)] \in WS THEN TrimEnd(SubSeq(line, 1, Len(line) - 1))
    ELSE line

\* rawCode with headers, comments and blank lines removed, trimmed; the texts
\* of this model hold no quote character, so the docstring pattern never matches
cleanCodeForEmbedding(rawCode) ==
    LET stripped == [i \in 1..Len(rawCode) |-> StripComment(StripHeader(rawCode[i]))]
        kept == SelectSeq(stripped, LAMBDA line : ~IsBlank(line))
    IN  IF kept = <<>> THEN <<<<>>>>
        ELSE [i \in 1..Len(kept) |->
                 LET l1 == IF i = 1 THEN TrimStart(kept[i]) ELSE kept[i]
                 IN  IF i = Len(kept) THEN TrimEnd(l1) ELSE l1]

\* pureLogicCode || node.code || node.label
contentToEmbed(node) ==
    LET pureLogicCode == cleanCodeForEmbedding(node.code)
    IN  IF pureLogicCode # <<<<>>>> THEN pureLogicCode
        ELSE IF node.code # <<<<>>>> THEN node.code
        ELSE <<node.label>>

\* ------------------------------------------------------------------------
\* Editing (App.tsx 37-67, 339-374)
\* ------------------------------------------------------------------------

\* index of the first line matching the header of funcName, 0 if none
HeaderLine(lines, funcName) ==
    IF \E i \in 1..Len(lines) : replaceRegexTest(lines[i], funcName)
    THEN CHOOSE i \in 1..Len(lines) :
            /\ replaceRegexTest(lines[i], funcName)
            /\ \A k \in 1..(i - 1) : ~replaceRegexTest(lines[k], funcName)
    ELSE 0

\* mutant: the lines after the replaced block are lost
replaceFunctionInCode_DropsTail(fileContent, funcName, newCode) ==
    LET startLine == HeaderLine(fileContent, funcName)
    IN  IF startLine # 0
        THEN SubSeq(fileContent, 1, startLine - 1) \o newCode
        ELSE fileContent

replaceFunctionInCode(fileContent, funcName, newCode) ==
    LET startLine == HeaderLine(fileContent, funcName)
    IN  IF startLine # 0
        THEN LET endLine == BodyEnd(fileContent, startLine)
             IN  SubSeq(fileContent, 1, startLine - 1) \o newCode
                 \o SubSeq(fileContent, endLine, Len(fileContent))
        ELSE fileContent

\* fileMap[filename]; absent -> Undefined
HasFile(files, filename) == \E i \in 1..Len(files) : files[i].name = filename

FileContent(files, filename) ==
    files[CHOOSE i \in 1..Len(files) : files[i].name = filename].code

\* { ...prev, [filename]: content }: an existing key keeps its place, a new key is last
SetFile(files, filename, content) ==
    IF HasFile(files, filename)
    THEN [i \in 1..Len(files) |->
            IF files[i].name = filename THEN [name |-> filename, code |-> content] ELSE files[i]]
    ELSE Append(files, [name |-> filename, code |-> content])


\* ------------------------------------------------------------------------
\* Inputs: file names, lines, texts, Embedder vectors, random streams
\* ------------------------------------------------------------------------

aPy == <<"a", ".", "p", "y">>

bPy == <<"b", ".", "p", "y">>

nMd == <<"n", ".", "m", "d">>

nameF == <<"f">>

nameG == <<"g">>

lineDefF == <<"d", "e", "f", " ", "f", "(", ")", ":">>

lineDefG == <<"d", "e", "f", " ", "g", "(", ")", ":">>

lineRet1 == <<" ", "1">>

lineCallG == <<" ", "g", "(", ")">>

lineCallF == <<" ", "f", "(", "0", ")">>

lineTop == <<"x", "=", "1">>

\* def f(): g()  /  def g(): 1      (scenario B)
textFG == <<lineDefF, lineCallG, lineDefG, lineRet1>>

\* g removed, f untouched           (scenario E)
textF == <<lineDefF, lineCallG>>

\* f edited, g untouched
textF1G == <<lineDefF, lineRet1, lineDefG, lineRet1>>

\* f defined twice in one file
textFF == <<lineDefF, lineRet1, lineDefF, lineCallF>>

\* f defined twice, the second definition edited
textFF2 == <<lineDefF, lineRet1, lineDefF, lineCallG>>

\* g alone, recursive
textG == <<lineDefG, lineCallG>>

\* no function at all
textTop == <<lineTop>>

blockF1 == <<lineDefF, lineRet1>>

blockG1 == <<lineDefG, lineRet1>>

FileMapOf(name, code) == [name |-> name, code |-> code]

\* stand-in for the demo project of constants.ts (python files plus a markdown file)
INITIAL_FILES == <<FileMapOf(aPy, textFG), FileMapOf(nMd, textTop)>>

\* contents the host reports for a file (file watcher, workspace load)
WatchedFiles == {aPy}

WatchedTexts == {textFG, textF, textF1G, textFF, textFF2}

\* results of getWorkspaceFiles; the empty one makes the webview fall back to the demo
WorkspaceResults == {<<>>, <<FileMapOf(aPy, textFG)>>, <<FileMapOf(aPy, textFF)>>}

\* texts typed into the editor / applied from the refactor panel
EditTexts == {blockF1, blockG1}

\* file lists dropped on the sidebar
UploadLists == {<<FileMapOf(bPy, textG)>>}

\* vectors returned by the Embedder: vecUnit and vecAtThreshold have cosine
\* similarity exactly 3/4, vecUnit and vecAbove have 4/sqrt(28) = 0.7559...
vecUnit == <<1, 0, 0, 0, 0>>

vecAtThreshold == <<3, 2, 1, 1, 1>>

vecAbove == <<4, 3, 1, 1, 1>>

EmbedVectors == {vecUnit, vecAtThreshold, vecAbove}

\* streams of Math.random() values (hundredths), consumed cyclically by one build
RandomStreams == {<<0>>, <<50, 95>>}

\* bound on the number of inputs of one run: file watcher events, editor
\* changes, uploads and clicks on the recalculate button
MaxInputs == 1

EmptyGraph == [nodes |-> <<>>, links |-> <<>>]

\* replies is history: <<k, vector>> for every request of the call that was
\* answered with a vector
NoPass == [active |-> FALSE, graph |-> EmptyGraph, newNodes |-> <<>>,
           updated |-> FALSE, waiting |-> {}, replies |-> {}]

\* written is history: the file names the editor and the file watcher wrote
\* since the call copied the FileMap
NoUpload == [active |-> FALSE, newFiles |-> <<>>, fileList |-> <<>>, written |-> {}]

\* ------------------------------------------------------------------------
\* Request/response module of the webview (vscodeApi: pendingRequests,
\* message listener, sendRequest)
\* ------------------------------------------------------------------------

\* number of sendRequest calls of one run
MaxRequests == 2

\* number of response messages the window receives for one requestId
MaxResponses == 2

RequestIds == 1..MaxRequests

\* counter: requestIdCounter; pending: the keys of pendingRequests; timers: the
\* requests whose setTimeout is neither fired nor cleared.  History: posted
\* counts the responses dispatched per requestId, calls lists the calls of the
\* promise's resolve and reject, events lists the responses dispatched and
\* timers fired.
NoRpc == [counter |-> 0, pending |-> {}, timers |-> {},
          posted |-> [id \in RequestIds |-> 0],
          calls |-> [id \in RequestIds |-> <<>>],
          events |-> [id \in RequestIds |-> <<>>]]

\* what a response message does to the promise: reject on error, else resolve
Settlement(message) ==
    [how |-> IF message.error THEN "reject" ELSE "resolve", by |-> "response"]

TimeoutSettlement == [how |-> "reject", by |-> "timeout"]

\* mutant: the listener settles without looking the requestId up in the map
OnMessage_NoPendingCheck(r, message) ==
    [r EXCEPT !.pending = @ \ {message.requestId},
              !.timers = @ \ {message.requestId},
              !.calls[message.requestId] = Append(@, Settlement(message)),
              !.events[message.requestId] = Append(@, Settlement(message))]

\* the message listener for a message that carries a requestId
OnMessage(r, message) ==
    IF message.requestId \in r.pending
    THEN [r EXCEPT !.pending = @ \ {message.requestId},
                   !.timers = @ \ {message.requestId},
                   !.calls[message.requestId] = Append(@, Settlement(message)),
                   !.events[message.requestId] = Append(@, Settlement(message))]
    ELSE [r EXCEPT !.events[message.requestId] = Append(@, Settlement(message))]

\* the setTimeout callback of request requestId
OnTimeout(r, requestId) ==
    IF requestId \in r.pending
    THEN [r EXCEPT !.pending = @ \ {requestId},
                   !.timers = @ \ {requestId},
                   !.calls[requestId] = Append(@, TimeoutSettlement),
                   !.events[requestId] = Append(@, TimeoutSettlement)]
    ELSE [r EXCEPT !.timers = @ \ {requestId},
                   !.events[requestId] = Append(@, TimeoutSettlement)]

\* ------------------------------------------------------------------------
\* State
\* ------------------------------------------------------------------------

VARIABLES
    isVSCode,                 \* vscodeApi.isVSCodeEnv()
    isLoading,                \* getWorkspaceFiles() not yet settled
    fileMap,                  \* FileMap in insertion order: <<[name, code], ...>>
    graphData,                \* the stored graph [nodes, links]
    rebuildPending,           \* the [fileMap] effect is scheduled
    hasInitialEmbedding,
    isCalculatingEmbeddings,  \* busy flag
    pass,                     \* the running handleRecalculateSemanticGraph call
    upload,                   \* the running handleFilesUploaded call
    last,                     \* history: the step just taken; for a rebuild also its inputs
    embedderReplies,          \* history: <<content, vector>> for every vector the Embedder returned
    rpc,                      \* the request/response module: counter, pending map, timers
    used                      \* number of inputs delivered so far

vars == <<isVSCode, isLoading, fileMap, graphData, rebuildPending, hasInitialEmbedding,
          isCalculatingEmbeddings, pass, upload, last, embedderReplies, rpc, used>>

Use(source) == used < MaxInputs /\ used' = used + 1

Step(op, prevGraph, rnd) == [op |-> op, prevGraph |-> prevGraph, rnd |-> rnd]

\* history of a step that writes the FileMap: the FileMap before the step and
\* the file names the step writes
FilesStep(op, prevFiles, names, written) ==
    [op |-> op, prevGraph |-> EmptyGraph, rnd |-> <<>>, prevFiles |-> prevFiles, names |-> names,
     written |-> written]

\* the running upload after the editor or the file watcher wrote the files names
NoteWritten(names) ==
    IF upload.active THEN [upload EXCEPT !.written = @ \cup names] ELSE upload

\* the names of the entries of new that old does not hold
WrittenNames(old, new) ==
    {new[i].name : i \in {k \in 1..Len(new) : \A j \in 1..Len(old) : old[j] # new[k]}}

Init ==
    /\ isVSCode \in BOOLEAN
    /\ isLoading = isVSCode
    /\ fileMap = IF isVSCode THEN <<>> ELSE INITIAL_FILES
    /\ \E rnd \in RandomStreams :
          graphData = IF isVSCode THEN EmptyGraph
                      ELSE generateGraphFromFiles(INITIAL_FILES, rnd)
    /\ rebuildPending = ~isVSCode
    /\ hasInitialEmbedding = FALSE
    /\ isCalculatingEmbeddings = FALSE
    /\ pass = NoPass
    /\ upload = NoUpload
    /\ last = Step("init", EmptyGraph, <<>>)
    /\ embedderReplies = {}
    /\ rpc = NoRpc
    /\ used = 0


\* ------------------------------------------------------------------------
\* FileMap sources
\* ------------------------------------------------------------------------

\* loadWorkspaceFiles settles (App.tsx 104-142): a non-empty result replaces the
\* FileMap, an empty result or a failure installs the demo files
LoadWorkspace(result) ==
    /\ isVSCode /\ isLoading
    /\ isLoading' = FALSE
    /\ fileMap' = IF Len(result) > 0 THEN result ELSE INITIAL_FILES
    /\ rebuildPending' = TRUE
    /\ last' = Step("load", EmptyGraph, <<>>)
    /\ UNCHANGED <<rpc, embedderReplies, isVSCode, graphData, hasInitialEmbedding, isCalculatingEmbeddings,
                   pass, upload, used>>

\* file watcher event (App.tsx 147-150); the listener exists only inside VSCode
FileChanged(filename, content) ==
    /\ isVSCode
    /\ fileMap' = SetFile(fileMap, filename, content)
    /\ rebuildPending' = TRUE
    /\ last' = FilesStep("fileChanged", fileMap, {filename}, {})
    /\ upload' = NoteWritten({filename})
    /\ Use("fileEvents")
    /\ UNCHANGED <<rpc, embedderReplies, isVSCode, isLoading, graphData, hasInitialEmbedding,
                   isCalculatingEmbeddings, pass>>

\* handleFilesUploaded up to its first await: copies the FileMap it closed over
UploadStart(fileList) ==
    /\ ~upload.active
    /\ upload' = [active |-> TRUE, newFiles |-> fileMap, fileList |-> fileList,
                  written |-> {}]
    /\ last' = Step("uploadStart", EmptyGraph, <<>>)
    /\ Use("uploads")
    /\ UNCHANGED <<rpc, embedderReplies, isVSCode, isLoading, fileMap, graphData, rebuildPending,
                   hasInitialEmbedding, isCalculatingEmbeddings, pass>>

RECURSIVE SetFiles(_, _)
SetFiles(files, fileList) ==
    IF fileList = <<>> THEN files
    ELSE SetFiles(SetFile(files, Head(fileList).name, Head(fileList).code), Tail(fileList))

\* the last file.text() settles: setFileMap(newFiles)
UploadCommit ==
    /\ upload.active
    /\ fileMap' = SetFiles(upload.newFiles, upload.fileList)
    /\ rebuildPending' = TRUE
    /\ upload' = NoUpload
    /\ last' = FilesStep("uploadCommit", fileMap,
                          {upload.fileList[i].name : i \in 1..Len(upload.fileList)},
                          upload.written)
    /\ UNCHANGED <<rpc, embedderReplies, isVSCode, isLoading, graphData, hasInitialEmbedding,
                   isCalculatingEmbeddings, pass, used>>

\* ------------------------------------------------------------------------
\* Rebuild: the [fileMap] effect (App.tsx 183-212)
\* ------------------------------------------------------------------------

Rebuild(rnd) ==
    /\ rebuildPending
    /\ rebuildPending' = FALSE
    /\ IF Len(fileMap) = 0
       THEN /\ graphData' = graphData
            /\ last' = Step("rebuildSkipped", EmptyGraph, <<>>)
       ELSE LET newStructure == generateGraphFromFiles(fileMap, rnd)
            IN  /\ graphData' = MergeGraph(graphData, newStructure)
                /\ last' = Step("rebuild", graphData, rnd)
    /\ UNCHANGED <<rpc, embedderReplies, isVSCode, isLoading, fileMap, hasInitialEmbedding,
                   isCalculatingEmbeddings, pass, upload, used>>

\* ------------------------------------------------------------------------
\* Editor: handleCodeChange (App.tsx 339-374)
\* ------------------------------------------------------------------------

\* mutant: the edit also drops the embedding of the edited node
MarkEdited_ClearsEmbedding(graph, selectedNodeId, newCode) ==
    [graph EXCEPT !.nodes =
        [i \in 1..Len(graph.nodes) |->
            IF graph.nodes[i].id = selectedNodeId
            THEN [graph.nodes[i] EXCEPT !.code = newCode, !.isStale = StaleTrue,
                                        !.embedding = NoEmbedding]
            ELSE graph.nodes[i]]]

MarkEdited(graph, selectedNodeId, newCode) ==
    [graph EXCEPT !.nodes =
        [i \in 1..Len(graph.nodes) |->
            IF graph.nodes[i].id = selectedNodeId
            THEN [graph.nodes[i] EXCEPT !.code = newCode, !.isStale = StaleTrue]
            ELSE graph.nodes[i]]]

\* index of the first Imports link leaving id, 0 if none
ImportLinkOf(graph, id) ==
    IF \E i \in 1..Len(graph.links) : graph.links[i].type = IMPORTS /\ graph.links[i].source = id
    THEN CHOOSE i \in 1..Len(graph.links) :
            /\ graph.links[i].type = IMPORTS /\ graph.links[i].source = id
            /\ \A k \in 1..(i - 1) :
                  ~(graph.links[k].type = IMPORTS /\ graph.links[k].source = id)
    ELSE 0

\* the FileMap after the edit of the node at index n of the graph
EditedFileMap(files, graph, n, newCode) ==
    LET node == graph.nodes[n]
    IN  IF node.type \in {MODULE_T, FILE_T} THEN SetFile(files, node.label, newCode)
        ELSE LET l == ImportLinkOf(graph, node.id)
                 p == IF l = 0 THEN 0 ELSE FindIndex(graph.nodes, graph.links[l].target)
             IN  IF p = 0 \/ ~HasFile(files, graph.nodes[p].label) THEN files
                 ELSE LET filename == graph.nodes[p].label
                          currentFileContent == FileContent(files, filename)
                          updatedFileContent ==
                              replaceFunctionInCode(currentFileContent, node.label, newCode)
                      IN  IF updatedFileContent # currentFileContent
                          THEN SetFile(files, filename, updatedFileContent)
                          ELSE files

\* TRUE iff handleCodeChange calls setFileMap
EditTouchesFileMap(files, graph, n, newCode) ==
    LET node == graph.nodes[n]
    IN  \/ node.type \in {MODULE_T, FILE_T}
        \/ EditedFileMap(files, graph, n, newCode) # files

\* history of an edit: the stored graph and the FileMap before it, and its arguments
EditStep(prevGraph, prevFiles, selectedNodeId, newCode) ==
    [op |-> "codeChange", prevGraph |-> prevGraph, rnd |-> <<>>,
     prevFiles |-> prevFiles, selected |-> selectedNodeId, newCode |-> newCode]

handleCodeChange(selectedNodeId, newCode) ==
    LET n == FindIndex(graphData.nodes, selectedNodeId)
    IN  /\ Use("edits")
        /\ graphData' = MarkEdited(graphData, selectedNodeId, newCode)
        /\ IF n = 0
           THEN UNCHANGED <<fileMap, rebuildPending, upload>>
           ELSE /\ fileMap' = EditedFileMap(fileMap, graphData, n, newCode)
                /\ rebuildPending' =
                      (rebuildPending \/ EditTouchesFileMap(fileMap, graphData, n, newCode))
                /\ upload' = NoteWritten(
                                 WrittenNames(fileMap, EditedFileMap(fileMap, graphData, n, newCode)))
        /\ last' = EditStep(graphData, fileMap, selectedNodeId, newCode)
        /\ UNCHANGED <<rpc, embedderReplies, isVSCode, isLoading, hasInitialEmbedding, isCalculatingEmbeddings,
                       pass>>


\* ------------------------------------------------------------------------
\* Similarity pass: handleRecalculateSemanticGraph (App.tsx 249-310)
\* ------------------------------------------------------------------------

\* the call up to its first suspension.  Outside VSCode sendRequest throws in
\* every callback, each is caught, and the call runs to its finally block at once.
StartPass ==
    LET todo == nodesToUpdate(graphData)
    IN  IF Len(todo) = 0 \/ ~isVSCode
        THEN UNCHANGED <<pass, isCalculatingEmbeddings>>
        ELSE /\ isCalculatingEmbeddings' = TRUE
             /\ pass' = [active |-> TRUE, graph |-> graphData, newNodes |-> graphData.nodes,
                         updated |-> FALSE, waiting |-> 1..Len(todo), replies |-> {}]

\* Auto-Run Embeddings on Initial Load (App.tsx 313-318)
AutoRun ==
    /\ ~hasInitialEmbedding /\ Len(graphData.nodes) > 0
    /\ StartPass
    /\ hasInitialEmbedding' = TRUE
    /\ last' = Step("autoRun", EmptyGraph, <<>>)
    /\ UNCHANGED <<rpc, embedderReplies, isVSCode, isLoading, fileMap, graphData, rebuildPending, upload, used>>

\* mutant: the button is not disabled while a pass runs
Recalculate_NoBusyGuard ==
    /\ hasInitialEmbedding
    /\ pendingUpdates(graphData) > 0
    /\ StartPass
    /\ last' = Step("recalculate", EmptyGraph, <<>>)
    /\ Use("passes")
    /\ UNCHANGED <<rpc, embedderReplies, isVSCode, isLoading, fileMap, graphData, rebuildPending,
                   hasInitialEmbedding, upload>>

\* Toolbar button: rendered when pendingUpdates > 0 or busy, disabled while busy.
\* The click is dispatched after the effects of the commit that first showed
\* the button, hence after the auto-run effect.
Recalculate ==
    /\ hasInitialEmbedding
    /\ ~isCalculatingEmbeddings /\ pendingUpdates(graphData) > 0
    /\ StartPass
    /\ last' = Step("recalculate", EmptyGraph, <<>>)
    /\ Use("passes")
    /\ UNCHANGED <<rpc, embedderReplies, isVSCode, isLoading, fileMap, graphData, rebuildPending,
                   hasInitialEmbedding, upload>>

structuralLinks(graph) == SelectSeq(graph.links, LAMBDA l : l.type # SEMANTIC)

\* the graph stored by the pass when updated is true
PassResult(snapshot, newNodes) ==
    [nodes |-> newNodes,
     links |-> structuralLinks(snapshot)
               \o SemanticLinks(SelectSeq(newNodes, LAMBDA n : n.embedding # NoEmbedding))]

\* history of the step that ends a call: the stored graph before the step, the
\* snapshot the call worked on, the vectors it received, and the updated flag
PassStep(prevGraph, snapshot, replies, updated) ==
    [op |-> "passDone", prevGraph |-> prevGraph, rnd |-> <<>>,
     passGraph |-> snapshot, replies |-> replies, updated |-> updated]

\* one callEmbedding settles with reply (a vector, or NoEmbedding for a null
\* result, an error or a timeout); when it is the last one, Promise.all
\* resolves and the rest of the call runs in the same turn
Settle(k, newNodes, updated, op, reply) ==
    LET node == nodesToUpdate(pass.graph)[k]
        replies == IF reply = NoEmbedding THEN pass.replies
                   ELSE pass.replies \cup {<<k, reply>>}
    IN  /\ embedderReplies' = IF reply = NoEmbedding THEN embedderReplies
                              ELSE embedderReplies \cup {<<contentToEmbed(node), reply>>}
        /\ IF pass.waiting = {k}
           THEN /\ graphData' = IF updated THEN PassResult(pass.graph, newNodes) ELSE graphData
                /\ isCalculatingEmbeddings' = FALSE
                /\ pass' = NoPass
                /\ last' = PassStep(graphData, pass.graph, replies, updated)
           ELSE /\ pass' = [pass EXCEPT !.newNodes = newNodes, !.updated = updated,
                                         !.waiting = pass.waiting \ {k},
                                         !.replies = replies]
                /\ last' = Step(op, EmptyGraph, <<>>)
                /\ UNCHANGED <<graphData, isCalculatingEmbeddings>>
        /\ UNCHANGED <<rpc, isVSCode, isLoading, fileMap, rebuildPending, hasInitialEmbedding,
                       upload, used>>

\* result.embedding is a vector
EmbeddingSucceeded(k, embedding) ==
    /\ pass.active /\ k \in pass.waiting
    /\ LET node == nodesToUpdate(pass.graph)[k]
           idx == FindIndex(pass.newNodes, node.id)
       IN  Settle(k, [pass.newNodes EXCEPT ![idx] =
                        [@ EXCEPT !.embedding = embedding, !.isStale = StaleFalse]],
                  TRUE, "embedded", embedding)

\* mutant: a request without an answer has no timeout and stays pending
EmbeddingFailed_NeverSettles(k) ==
    /\ pass.active /\ k \in pass.waiting
    /\ UNCHANGED vars

\* mutant: a failed request also sets the updated flag
EmbeddingFailed_SetsUpdated(k) ==
    /\ pass.active /\ k \in pass.waiting
    /\ Settle(k, pass.newNodes, TRUE, "embedFailed", NoEmbedding)

\* result.embedding is null, the host answers with an error, or the request times out
EmbeddingFailed(k) ==
    /\ pass.active /\ k \in pass.waiting
    /\ Settle(k, pass.newNodes, pass.updated, "embedFailed", NoEmbedding)

\* ------------------------------------------------------------------------
\* Specification
\* ------------------------------------------------------------------------

Next ==
    \/ \E result \in WorkspaceResults : LoadWorkspace(result)
    \/ \E filename \in WatchedFiles, content \in WatchedTexts : FileChanged(filename, content)
    \/ \E fileList \in UploadLists : UploadStart(fileList)
    \/ UploadCommit
    \/ \E rnd \in RandomStreams : Rebuild(rnd)
    \/ \E i \in 1..Len(graphData.nodes), newCode \in EditTexts :
          handleCodeChange(graphData.nodes[i].id, newCode)
    \/ AutoRun
    \/ Recalculate
    \/ \E k \in pass.waiting, embedding \in EmbedVectors : EmbeddingSucceeded(k, embedding)
    \/ \E k \in pass.waiting : EmbeddingFailed(k)

Spec == Init /\ [][Next]_vars

\* the timer of sendRequest (60 s for callEmbedding) fires for every request
\* that is still pending, so a waiting request cannot wait forever
LiveSpec == Spec /\ WF_vars(\E k \in pass.waiting : EmbeddingFailed(k))

\* runs that begin right after a call of handleFilesUploaded at start-up: the
\* call has copied the FileMap and is reading its files
UploadInit ==
    /\ isVSCode \in BOOLEAN
    /\ isLoading = isVSCode
    /\ fileMap = IF isVSCode THEN <<>> ELSE INITIAL_FILES
    /\ \E rnd \in RandomStreams :
          graphData = IF isVSCode THEN EmptyGraph
                      ELSE generateGraphFromFiles(INITIAL_FILES, rnd)
    /\ rebuildPending = ~isVSCode
    /\ hasInitialEmbedding = FALSE
    /\ isCalculatingEmbeddings = FALSE
    /\ pass = NoPass
    /\ \E fileList \in UploadLists :
          upload = [active |-> TRUE, newFiles |-> fileMap, fileList |-> fileList,
                    written |-> {}]
    /\ last = Step("uploadStart", EmptyGraph, <<>>)
    /\ embedderReplies = {}
    /\ rpc = NoRpc
    /\ used = 0

UploadSpec == UploadInit /\ [][Next]_vars

TypeOK ==
    /\ isVSCode \in BOOLEAN /\ isLoading \in BOOLEAN /\ rebuildPending \in BOOLEAN
    /\ hasInitialEmbedding \in BOOLEAN /\ isCalculatingEmbeddings \in BOOLEAN
    /\ pass.active \in BOOLEAN /\ upload.active \in BOOLEAN
    /\ \A i \in 1..Len(graphData.nodes) :
          graphData.nodes[i].isStale \in {StaleTrue, StaleFalse, Undefined}


\* ------------------------------------------------------------------------
\* Notions used by the properties
\* ------------------------------------------------------------------------

NodeIds(graph) == {graph.nodes[i].id : i \in 1..Len(graph.nodes)}

IdSeq(graph) == [i \in 1..Len(graph.nodes) |-> graph.nodes[i].id]

CodeSeq(graph) == [i \in 1..Len(graph.nodes) |-> graph.nodes[i].code]

LinkSet(graph) == {graph.links[i] : i \in 1..Len(graph.links)}

\* the step just taken was a rebuild that merged last.prevGraph with Fresh
Rebuilt == last.op = "rebuild"

\* the structural graph that rebuild parsed (a rebuild leaves fileMap unchanged)
Fresh == generateGraphFromFiles(fileMap, last.rnd)

\* the rebuild ran on a FileMap from which the previous graph's codes were parsed
RebuiltUnchanged ==
    /\ Rebuilt
    /\ IdSeq(last.prevGraph) = IdSeq(Fresh)
    /\ CodeSeq(last.prevGraph) = CodeSeq(Fresh)

Embedded(n) == n.embedding # NoEmbedding

\* node i of the stored graph and node j of the previous graph are the same
\* node: same id, and same place when the rebuild left the id sequence as it was
SameNode(i, j) ==
    /\ last.prevGraph.nodes[j].id = graphData.nodes[i].id
    /\ (IdSeq(last.prevGraph) = IdSeq(graphData) => i = j)

HasSemanticLink(graph) == \E l \in LinkSet(graph) : l.type = SEMANTIC

\* C1: a rebuild on a FileMap whose parse equals the stored graph's ids and codes
\* leaves the ids and codes as they were and every node with exactly the
\* embedding and isStale value it had before.
C1_RebuildKeepsAIState ==
    RebuiltUnchanged =>
        /\ IdSeq(graphData) = IdSeq(last.prevGraph)
        /\ CodeSeq(graphData) = CodeSeq(last.prevGraph)
        /\ \A i \in 1..Len(graphData.nodes) :
              /\ graphData.nodes[i].embedding = last.prevGraph.nodes[i].embedding
              /\ graphData.nodes[i].isStale = last.prevGraph.nodes[i].isStale

\* C2: after a rebuild, a node whose stored code differed from the freshly parsed
\* code of the same id is stale and carries the embedding it carried before.
C2_EditedNodeStaleKeepsEmbedding ==
    Rebuilt =>
        \A i \in 1..Len(graphData.nodes), j \in 1..Len(last.prevGraph.nodes) :
            (SameNode(i, j) /\ last.prevGraph.nodes[j].code # graphData.nodes[i].code)
            => /\ graphData.nodes[i].isStale = StaleTrue
               /\ graphData.nodes[i].embedding = last.prevGraph.nodes[j].embedding

\* C3: after a rebuild, a node whose id was in the previous graph with the same
\* code has the embedding and isStale it had, and every previous Semantic edge
\* whose endpoints both still exist is still there with its weight.
C3_UnrelatedEditsKeepAIState ==
    Rebuilt =>
        /\ \A i \in 1..Len(graphData.nodes), j \in 1..Len(last.prevGraph.nodes) :
              (SameNode(i, j) /\ last.prevGraph.nodes[j].code = graphData.nodes[i].code)
              => /\ graphData.nodes[i].embedding = last.prevGraph.nodes[j].embedding
                 /\ graphData.nodes[i].isStale = last.prevGraph.nodes[j].isStale
        /\ \A l \in LinkSet(last.prevGraph) :
              (l.type = SEMANTIC /\ l.source \in NodeIds(graphData)
                                 /\ l.target \in NodeIds(graphData))
              => l \in LinkSet(graphData)


EdgeEndpointsExist(graph) ==
    \A l \in LinkSet(graph) : l.source \in NodeIds(graph) /\ l.target \in NodeIds(graph)

\* C4: in every reachable state every edge of the stored graph, whatever its
\* type, has its source id and its target id among the graph's nodes.
C4_NoDanglingEdge == EdgeEndpointsExist(graphData)

\* C4 witness: a similarity pass stored its result after a rebuild had removed
\* a node of the pass's snapshot; the stored graph has Semantic edges.
C4_Witness ==
    /\ last.op = "passDone" /\ ~rebuildPending
    /\ HasSemanticLink(graphData)
    /\ \E id \in NodeIds(graphData) : id \notin NodeIds(generateGraphFromFiles(fileMap, <<0>>))

\* ids whose definition is gone from the FileMap the rebuild parsed
RemovedIds == NodeIds(last.prevGraph) \ NodeIds(Fresh)

Touches(l, id) == l.source = id \/ l.target = id

\* C5: after a rebuild, an id that was in the previous graph and is not defined
\* by the FileMap any more has no node and no edge of any type, and no
\* Semantic edge of the merged graph is dangling.
C5_DeletionPrunes ==
    Rebuilt =>
        /\ \A id \in RemovedIds :
              /\ id \notin NodeIds(graphData)
              /\ \A l \in LinkSet(graphData) : ~Touches(l, id)
        /\ \A l \in LinkSet(graphData) :
              l.type = SEMANTIC => l.source \in NodeIds(graphData) /\ l.target \in NodeIds(graphData)

\* C5 witness: a rebuild removed a function that had a Calls edge and a
\* Semantic edge in the previous graph.
C5_Witness ==
    /\ Rebuilt
    /\ \E id \in RemovedIds :
          /\ id[1] = "fn"
          /\ \E l \in LinkSet(last.prevGraph) : l.type = SEMANTIC /\ Touches(l, id)
          /\ \E l \in LinkSet(last.prevGraph) : l.type = CALLS /\ Touches(l, id)

\* C6: after a rebuild the node ids are exactly the fresh graph's node ids, and
\* the edge list is the fresh structural edges followed by the previous
\* Semantic edges whose endpoints are both among the merged nodes.
C6_MergeOutput ==
    Rebuilt =>
        /\ IdSeq(graphData) = IdSeq(Fresh)
        /\ graphData.links =
              Fresh.links \o SelectSeq(last.prevGraph.links, LAMBDA l :
                                /\ l.type = SEMANTIC
                                /\ l.source \in NodeIds(graphData)
                                /\ l.target \in NodeIds(graphData))

\* C6 witness: the previous graph had Calls edges and Semantic edges, one
\* Semantic edge survived the rebuild and the set of nodes changed.
C6_Witness ==
    /\ Rebuilt
    /\ \E l \in LinkSet(last.prevGraph) : l.type = CALLS
    /\ HasSemanticLink(graphData)
    /\ NodeIds(last.prevGraph) # NodeIds(graphData)

\* C7: in every reachable state a node without an embedding has isStale = true,
\* and a node a rebuild introduced under an id the previous graph did not have
\* is stored with isStale = true and no embedding.
C7_UnembeddedIsStale ==
    /\ \A i \in 1..Len(graphData.nodes) :
          ~Embedded(graphData.nodes[i]) => graphData.nodes[i].isStale = StaleTrue
    /\ Rebuilt =>
          \A i \in 1..Len(graphData.nodes) :
              graphData.nodes[i].id \notin NodeIds(last.prevGraph)
              => graphData.nodes[i].isStale = StaleTrue /\ ~Embedded(graphData.nodes[i])

\* C8: node ids are unique in every stored graph.
C8_UniqueNodeIds == Cardinality(NodeIds(graphData)) = Len(graphData.nodes)


\* ------------------------------------------------------------------------
\* The Graph Builder alone: repeated builds of one FileMap
\* ------------------------------------------------------------------------

lineBlank == <<>>

\* `g(` inside a longer identifier
lineCallXG == <<" ", "x", "g", "(", ")">>

\* a call to g in a comment at column 0
lineCommentG == <<"#", "g", "(", ")">>

BuilderLines == {lineDefF, lineDefG, lineRet1, lineCallG, lineCallF, lineCallXG,
                 lineCommentG, lineTop, lineBlank}

\* longest file of the one-file FileMaps
MaxLines == 3

TextsUpTo(n) == UNION {[1..k -> BuilderLines] : k \in 1..n}

\* one file of any content, or a python file followed by a second file
BuilderFileMaps ==
    {<<FileMapOf(name, code)>> : name \in {aPy, nMd}, code \in TextsUpTo(MaxLines)}
    \cup {<<FileMapOf(aPy, c1), FileMapOf(name, c2)>> :
             name \in {bPy, nMd}, c1 \in {textFG, textF, textFF}, c2 \in {textFG, textG, textTop}}

\* number of builds of the FileMap in one run
MaxBuilds == 2

BuilderInit ==
    /\ isVSCode = TRUE
    /\ isLoading = FALSE
    /\ fileMap \in BuilderFileMaps
    /\ graphData = EmptyGraph
    /\ rebuildPending = FALSE
    /\ hasInitialEmbedding = FALSE
    /\ isCalculatingEmbeddings = FALSE
    /\ pass = NoPass
    /\ upload = NoUpload
    /\ last = Step("init", EmptyGraph, <<>>)
    /\ embedderReplies = {}
    /\ rpc = NoRpc
    /\ used = 0

\* one call of generateGraphFromFiles(fileMap); the previous result is kept in last
Build(rnd) ==
    /\ used < MaxBuilds
    /\ used' = used + 1
    /\ graphData' = generateGraphFromFiles(fileMap, rnd)
    /\ last' = Step("build", graphData, rnd)
    /\ UNCHANGED <<rpc, embedderReplies, isVSCode, isLoading, fileMap, rebuildPending, hasInitialEmbedding,
                   isCalculatingEmbeddings, pass, upload>>

BuilderNext == \E rnd \in RandomStreams : Build(rnd)

BuilderSpec == BuilderInit /\ [][BuilderNext]_vars

\* the graph is the second result of the builder for this FileMap
BuiltTwice == last.op = "build" /\ used >= 2

Structural(n) ==
    [id |-> n.id, type |-> n.type, label |-> n.label, language |-> n.language,
     code |-> n.code, why |-> n.why, angleX |-> n.x.angle, angleY |-> n.y.angle,
     embedding |-> n.embedding, isStale |-> n.isStale]

RECURSIVE JoinLines(_)
JoinLines(text) ==
    IF Len(text) = 1 THEN text[1] ELSE text[1] \o <<"\n">> \o JoinLines(Tail(text))

\* str contains name followed by "(" and not preceded by an identifier character
HasCallText(str, name) ==
    \E i \in 1..Len(str) :
        /\ i + Len(name) <= Len(str)
        /\ \A k \in 1..Len(name) : str[i + k - 1] = name[k]
        /\ str[i + Len(name)] = "("
        /\ (i > 1 => str[i - 1] \notin IdChar)

FunctionNodes(graph) ==
    {graph.nodes[i] : i \in {k \in 1..Len(graph.nodes) : graph.nodes[k].type = FUNCTION_T}}

\* C10: for distinct function names f and g of the FileMap, the built graph has
\* a Calls edge fn-f -> fn-g exactly when the code of a function named f
\* contains `g(` at a word boundary.
C10_CallsEdgeIffCallText ==
    last.op = "build" =>
        \A a \in FunctionNodes(graphData), b \in FunctionNodes(graphData) :
            a.label # b.label =>
                ((\E l \in LinkSet(graphData) :
                     l.type = CALLS /\ l.source = fnId(a.label) /\ l.target = fnId(b.label))
                 <=> (\E n \in FunctionNodes(graphData) :
                         n.label = a.label /\ HasCallText(JoinLines(n.code), b.label)))

\* C10 witness: f calls g and g does not call f: edge fn-f -> fn-g and no edge back.
C10_Witness ==
    /\ last.op = "build"
    /\ \E l \in LinkSet(graphData) :
          l.type = CALLS /\ l.source = fnId(nameF) /\ l.target = fnId(nameG)
    /\ ~\E l \in LinkSet(graphData) :
          l.type = CALLS /\ l.source = fnId(nameG) /\ l.target = fnId(nameF)

\* the code of a function node without its first line, as one string
CodeBelowHeader(n) == IF Len(n.code) <= 1 THEN <<>> ELSE JoinLines(Tail(n.code))

SelfLoop(graph, name) ==
    \E l \in LinkSet(graph) : l.type = CALLS /\ l.source = fnId(name) /\ l.target = fnId(name)

\* C11: the built graph has a Calls edge fn-f -> fn-f exactly when the code of a
\* function named f, header line removed, contains `f(` at a word boundary; a
\* FileMap whose only function mentions its name in the header line alone
\* yields no Calls edge at all.
C11_SelfLoopIffBodyCall ==
    last.op = "build" =>
        /\ \A a \in FunctionNodes(graphData) :
              SelfLoop(graphData, a.label)
              <=> (\E n \in FunctionNodes(graphData) :
                      n.label = a.label /\ HasCallText(CodeBelowHeader(n), a.label))
        /\ \A a \in FunctionNodes(graphData) :
              (FunctionNodes(graphData) = {a} /\ ~HasCallText(CodeBelowHeader(a), a.label))
              => ~\E l \in LinkSet(graphData) : l.type = CALLS

\* C11 witness: g calls itself in its body and has the self-loop, f is named in
\* its header only and has none.
C11_Witness ==
    /\ last.op = "build"
    /\ SelfLoop(graphData, nameG) /\ ~SelfLoop(graphData, nameF)
    /\ \E n \in FunctionNodes(graphData) : n.label = nameF

\* ------------------------------------------------------------------------
\* Properties of the similarity pass
\* ------------------------------------------------------------------------

\* the step just taken ended a similarity pass / one that stored its result
PassEnded == last.op = "passDone"

PassStored == PassEnded /\ last.updated

SemanticSeq(graph) == SelectSeq(graph.links, LAMBDA l : l.type = SEMANTIC)

\* dot(a,b) / (|a| * |b|) > 3/4, on integers
ExceedsThreeQuarters(a, b) ==
    /\ DotProduct(a, b) > 0
    /\ 16 * DotProduct(a, b) * DotProduct(a, b) > 9 * DotProduct(a, a) * DotProduct(b, b)

\* positions i < j of two nodes with embeddings more similar than 0.75
SimilarPairs(graph) ==
    {p \in (1..Len(graph.nodes)) \X (1..Len(graph.nodes)) :
        /\ p[1] < p[2]
        /\ Embedded(graph.nodes[p[1]]) /\ Embedded(graph.nodes[p[2]])
        /\ ExceedsThreeQuarters(graph.nodes[p[1]].embedding, graph.nodes[p[2]].embedding)}

IsEdgeOfPair(l, graph, p) ==
    LET a == graph.nodes[p[1]]
        b == graph.nodes[p[2]]
    IN  /\ l.source = a.id /\ l.target = b.id /\ l.type = SEMANTIC
        /\ l.weight = <<DotProduct(a.embedding, b.embedding),
                        DotProduct(a.embedding, a.embedding) * DotProduct(b.embedding, b.embedding)>>

\* C12: when a pass that obtained an embedding has stored its result, the
\* Semantic edges of the stored graph are exactly one edge per pair of embedded
\* nodes whose cosine similarity is strictly above 0.75, weighted with that
\* similarity; no other Semantic edge, old or new, is in the graph.
C12_SemanticEdgesExact ==
    PassStored =>
        /\ Len(SemanticSeq(graphData)) = Cardinality(SimilarPairs(graphData))
        /\ \A p \in SimilarPairs(graphData) :
              \E l \in LinkSet(graphData) : IsEdgeOfPair(l, graphData, p)
        /\ \A l \in LinkSet(graphData) :
              l.type = SEMANTIC => \E p \in SimilarPairs(graphData) : IsEdgeOfPair(l, graphData, p)

\* C12 witness: a pass stored two embeddings whose similarity is exactly 0.75,
\* and the stored graph has no Semantic edge.
C12_Witness ==
    /\ PassStored
    /\ ~HasSemanticLink(graphData)
    /\ \E i, j \in 1..Len(graphData.nodes) :
          /\ i < j
          /\ Embedded(graphData.nodes[i]) /\ Embedded(graphData.nodes[j])
          /\ DotProduct(graphData.nodes[i].embedding, graphData.nodes[j].embedding) > 0
          /\ 16 * DotProduct(graphData.nodes[i].embedding, graphData.nodes[j].embedding)
                * DotProduct(graphData.nodes[i].embedding, graphData.nodes[j].embedding)
             = 9 * DotProduct(graphData.nodes[i].embedding, graphData.nodes[i].embedding)
                 * DotProduct(graphData.nodes[j].embedding, graphData.nodes[j].embedding)

\* ------------------------------------------------------------------------
\* cosineSimilarity alone: calls on vectors of equal length
\* ------------------------------------------------------------------------

\* longest vector and largest absolute value of a component
MaxDim == 2

MaxCoord == 2

VectorsOfLength(n) == [1..n -> (0 - MaxCoord)..MaxCoord]

SimilarityInit ==
    /\ isVSCode = TRUE
    /\ isLoading = FALSE
    /\ fileMap = <<>>
    /\ graphData = EmptyGraph
    /\ rebuildPending = FALSE
    /\ hasInitialEmbedding = FALSE
    /\ isCalculatingEmbeddings = FALSE
    /\ pass = NoPass
    /\ upload = NoUpload
    /\ last = Step("init", EmptyGraph, <<>>)
    /\ embedderReplies = {}
    /\ rpc = NoRpc
    /\ used = 0

\* the call cosineSimilarity(vecA, vecB) of the run; the arguments and the result
\* are kept in last
Similarity(vecA, vecB) ==
    /\ last' = [op |-> "cosineSimilarity", vecA |-> vecA, vecB |-> vecB,
                score |-> cosineSimilarity(vecA, vecB)]
    /\ UNCHANGED <<isVSCode, isLoading, fileMap, graphData, rebuildPending,
                   hasInitialEmbedding, isCalculatingEmbeddings, pass, upload,
                   embedderReplies, rpc, used>>

SimilarityNext ==
    /\ last.op = "init"
    /\ \E n \in 1..MaxDim : \E vecA \in VectorsOfLength(n), vecB \in VectorsOfLength(n) :
          Similarity(vecA, vecB)

SimilaritySpec == SimilarityInit /\ [][SimilarityNext]_vars

\* sum of v[i] * w[i] over the indices of v
SumOfProducts(v, w) ==
    LET RECURSIVE Upto(_)
        Upto(n) == IF n = 0 THEN 0 ELSE Upto(n - 1) + v[n] * w[n]
    IN  Upto(Len(v))

IsZeroVector(v) == \A i \in 1..Len(v) : v[i] = 0

\* C13: cosineSimilarity(a, b) is 0 when a or b has zero magnitude, and
\* otherwise dot(a,b) / (|a| * |b|), i.e. the number whose numerator is the sum
\* of the products of the components and whose squared denominator is
\* |a|^2 * |b|^2 (never 0, so the result is a number).
C13_CosineSimilarity ==
    last.op = "cosineSimilarity" =>
        IF IsZeroVector(last.vecA) \/ IsZeroVector(last.vecB)
        THEN last.score = <<0, 1>>
        ELSE /\ last.score[1] = SumOfProducts(last.vecA, last.vecB)
             /\ last.score[2] = SumOfProducts(last.vecA, last.vecA)
                                * SumOfProducts(last.vecB, last.vecB)
             /\ last.score[2] > 0

\* C13 witness: a call with a zero vector and a non-zero vector.
C13_Witness ==
    /\ last.op = "cosineSimilarity"
    /\ IsZeroVector(last.vecA) /\ ~IsZeroVector(last.vecB)
    /\ last.score = <<0, 1>>

\* positions, in the snapshot of the pass just ended, of the nodes the pass
\* requested embeddings for, in request order
Eligible(n) ==
    n.type = FUNCTION_T /\ n.language = "python" /\ n.code # <<<<>>>>
    /\ (~Embedded(n) \/ n.isStale = StaleTrue)

EligiblePositions(graph) == {i \in 1..Len(graph.nodes) : Eligible(graph.nodes[i])}

\* the position of the k-th eligible node
PositionOf(graph, k) ==
    CHOOSE i \in EligiblePositions(graph) :
        Cardinality({j \in EligiblePositions(graph) : j <= i}) = k

Succeeded(k) == \E r \in last.replies : r[1] = k

ReplyOf(k) == (CHOOSE r \in last.replies : r[1] = k)[2]

\* C14: when a pass ends, every eligible node whose request was answered with a
\* vector is stored with that vector and isStale = false, whatever happened to
\* the other requests; a node whose request failed is as it was in the pass's
\* snapshot (same embedding, still eligible); without any vector the stored
\* graph is untouched; and the pass has ended with the busy flag cleared.
C14_FailuresIsolated ==
    PassEnded =>
        /\ ~isCalculatingEmbeddings /\ ~pass.active
        /\ ~last.updated => graphData = last.prevGraph
        /\ last.updated =>
              \A k \in 1..Cardinality(EligiblePositions(last.passGraph)) :
                  LET i == PositionOf(last.passGraph, k)
                  IN  IF Succeeded(k)
                      THEN /\ graphData.nodes[i].embedding = ReplyOf(k)
                           /\ graphData.nodes[i].isStale = StaleFalse
                      ELSE /\ graphData.nodes[i] = last.passGraph.nodes[i]
                           /\ Eligible(graphData.nodes[i])

\* ------------------------------------------------------------------------
\* Properties of the editor
\* ------------------------------------------------------------------------

\* the step just taken was handleCodeChange(last.newCode) on node last.selected
Edited == last.op = "codeChange"

\* C15: the edit itself leaves the stored graph with every node of the selected
\* id carrying the new code and isStale = true and the embedding it had, and
\* with every other node and every edge as before, whether or not the edit
\* changed the FileMap and before any rebuild has run.
C15_EditMarksStaleAtOnce ==
    Edited =>
        /\ Len(graphData.nodes) = Len(last.prevGraph.nodes)
        /\ \A i \in 1..Len(graphData.nodes) :
              IF last.prevGraph.nodes[i].id = last.selected
              THEN graphData.nodes[i] =
                      [last.prevGraph.nodes[i] EXCEPT !.code = last.newCode, !.isStale = StaleTrue]
              ELSE graphData.nodes[i] = last.prevGraph.nodes[i]
        /\ graphData.links = last.prevGraph.links

\* C15 witness: an embedded, up-to-date node was edited, the FileMap is as it
\* was, no rebuild is pending, and the node is stale with its embedding.
C15_Witness ==
    /\ Edited /\ fileMap = last.prevFiles /\ ~rebuildPending
    /\ \E i \in 1..Len(graphData.nodes) :
          /\ graphData.nodes[i].id = last.selected
          /\ last.prevGraph.nodes[i].isStale = StaleFalse
          /\ Embedded(graphData.nodes[i]) /\ graphData.nodes[i].isStale = StaleTrue

\* the node the edit was applied to (the first node of the selected id)
EditedNode == last.prevGraph.nodes[FindIndex(last.prevGraph.nodes, last.selected)]

EndsBlock(line) ==
    /\ \E i \in 1..Len(line) : line[i] \notin {" ", "\t"}
    /\ line[1] \notin {" ", "\t", "#", "@"}

\* new is old with the block of name replaced by newCode: the block starts at
\* the first header line of name and ends before the next line that ends it
BlockReplaced(old, name, newCode, new) ==
    \E h \in 1..Len(old) : \E e \in (h + 1)..(Len(old) + 1) :
        /\ functionRegex(old[h]) = name
        /\ \A k \in 1..(h - 1) : functionRegex(old[k]) # name
        /\ e <= Len(old) => EndsBlock(old[e])
        /\ \A k \in (h + 1)..(e - 1) : ~EndsBlock(old[k])
        /\ new = SubSeq(old, 1, h - 1) \o newCode \o SubSeq(old, e, Len(old))

DefinesFunction(text, name) == \E h \in 1..Len(text) : functionRegex(text[h]) = name

\* the files that own the edited node: the targets of its Imports edges in
\* the stored graph
OwnerNames ==
    {l.target[2] : l \in {e \in LinkSet(last.prevGraph) :
                             e.type = IMPORTS /\ e.source = last.selected}}

\* C16: an edit of a Function node f leaves the FileMap with the same file
\* names in the same order; if the file that owns f is in the FileMap and has
\* a header line of f, its text has f's block replaced by newCode and all its
\* other lines kept, and every other entry is unchanged; otherwise the FileMap
\* is unchanged.
C16_EditReplacesOnlyTheBlock ==
    (Edited /\ EditedNode.type = FUNCTION_T) =>
        /\ Len(fileMap) = Len(last.prevFiles)
        /\ \A k \in 1..Len(fileMap) : fileMap[k].name = last.prevFiles[k].name
        /\ \E name \in OwnerNames :
              IF \E k \in 1..Len(fileMap) :
                    /\ last.prevFiles[k].name = name
                    /\ DefinesFunction(last.prevFiles[k].code, EditedNode.label)
              THEN \E k \in 1..Len(fileMap) :
                      /\ last.prevFiles[k].name = name
                      /\ BlockReplaced(last.prevFiles[k].code, EditedNode.label, last.newCode,
                                       fileMap[k].code)
                      /\ \A j \in 1..Len(fileMap) : j # k => fileMap[j] = last.prevFiles[j]
              ELSE fileMap = last.prevFiles

\* C16 witness: the block of f was replaced in a file that goes on with g's
\* block, next to a second file.
C16_Witness ==
    /\ Edited /\ EditedNode.type = FUNCTION_T
    /\ fileMap # last.prevFiles /\ Len(fileMap) > 1
    /\ \E k \in 1..Len(fileMap) :
          /\ fileMap[k].code # last.prevFiles[k].code
          /\ DefinesFunction(fileMap[k].code, nameG)
          /\ EditedNode.label = nameF

\* ------------------------------------------------------------------------
\* Concurrency of passes and rebuilds
\* ------------------------------------------------------------------------

\* this step is a trigger (auto-run or toolbar click) whose call of
\* handleRecalculateSemanticGraph finds eligible nodes and issues requests
PassStarts ==
    /\ last'.op \in {"autoRun", "recalculate"}
    /\ isVSCode /\ Len(nodesToUpdate(graphData)) > 0
    /\ pass'.active

NonSemanticSeq(graph) == SelectSeq(graph.links, LAMBDA l : l.type \in {IMPORTS, CALLS})

NonSemanticSet(graph) == {l \in LinkSet(graph) : l.type \in {IMPORTS, CALLS}}

\* C18: a pass that stores its result stores the nodes (ids, codes) and the
\* structural edges of the snapshot taken when it started, also when a rebuild
\* changed the stored graph in between; and after every rebuild a node is
\* embedded with isStale = false only if the graph before the rebuild had a
\* node of that id with the same code, the same embedding and isStale = false,
\* so a node whose FileMap code differs from the stored code is stale.
C18_LaterUpdateWins ==
    /\ PassStored =>
          /\ IdSeq(graphData) = IdSeq(last.passGraph)
          /\ CodeSeq(graphData) = CodeSeq(last.passGraph)
          /\ NonSemanticSeq(graphData) = NonSemanticSeq(last.passGraph)
    /\ Rebuilt =>
          \A i \in 1..Len(graphData.nodes) :
              (Embedded(graphData.nodes[i]) /\ graphData.nodes[i].isStale = StaleFalse)
              => \E j \in 1..Len(last.prevGraph.nodes) :
                    /\ last.prevGraph.nodes[j].id = graphData.nodes[i].id
                    /\ last.prevGraph.nodes[j].code = graphData.nodes[i].code
                    /\ last.prevGraph.nodes[j].embedding = graphData.nodes[i].embedding
                    /\ last.prevGraph.nodes[j].isStale = StaleFalse

\* C18 witness: a pass stored its result over a graph that a rebuild had
\* changed while the pass was in flight.
C18_Witness ==
    /\ PassStored
    /\ CodeSeq(last.prevGraph) # CodeSeq(last.passGraph)
    /\ CodeSeq(graphData) = CodeSeq(last.passGraph)
    /\ \E i \in 1..Len(graphData.nodes) :
          Embedded(graphData.nodes[i]) /\ graphData.nodes[i].isStale = StaleFalse

\* C19: the step that stores a pass's result leaves the set of Imports and
\* Calls edges of the stored graph as it was immediately before the step.
C19_PassKeepsStructuralEdges ==
    PassStored => NonSemanticSet(graphData) = NonSemanticSet(last.prevGraph)

\* C20: in every reachable state a Function node that is embedded with
\* isStale = false carries a vector the Embedder returned for the text derived
\* from that node's current code.
C20_FreshEmbeddingMatchesCode ==
    \A i \in 1..Len(graphData.nodes) :
        (/\ graphData.nodes[i].type = FUNCTION_T
         /\ Embedded(graphData.nodes[i])
         /\ graphData.nodes[i].isStale = StaleFalse)
        => <<contentToEmbed(graphData.nodes[i]), graphData.nodes[i].embedding>> \in embedderReplies

\* ------------------------------------------------------------------------
\* Staleness, failed passes and layout positions
\* ------------------------------------------------------------------------

\* C21: an edit whose newCode equals the current code of a node that is not
\* stale and carries a vector the Embedder returned for that code does not
\* leave the node eligible for another Embedder call.
C21_NoRedundantStale ==
    Edited =>
        \A i \in 1..Len(graphData.nodes) :
            (/\ last.prevGraph.nodes[i].id = last.selected
             /\ last.prevGraph.nodes[i].type = FUNCTION_T
             /\ last.prevGraph.nodes[i].code = last.newCode
             /\ last.prevGraph.nodes[i].isStale = StaleFalse
             /\ <<contentToEmbed(last.prevGraph.nodes[i]), last.prevGraph.nodes[i].embedding>>
                   \in embedderReplies)
            => ~Eligible(graphData.nodes[i])

\* C22: when a pass ends in which no request was answered with a vector, the
\* stored graph is the graph stored immediately before that step (nodes,
\* embeddings, isStale values and every edge), hence with the same number of
\* pending updates, and the updated flag of the pass is false.
C22_FailedPassChangesNothing ==
    (PassEnded /\ last.replies = {}) =>
        /\ ~last.updated
        /\ graphData = last.prevGraph
        /\ pendingUpdates(graphData) = pendingUpdates(last.prevGraph)

\* C22 witness: a pass with two requests ended without any vector while a
\* rebuild had changed the stored graph since the pass started.
C22_Witness ==
    /\ PassEnded /\ last.replies = {}
    /\ Cardinality(EligiblePositions(last.passGraph)) >= 2
    /\ graphData # last.passGraph
    /\ pendingUpdates(graphData) > 0

\* C23: after a rebuild a node matched by id to a previous node with identical
\* code has the previous node's position x and y.
C23_MergeKeepsPosition ==
    Rebuilt =>
        \A i \in 1..Len(graphData.nodes), j \in 1..Len(last.prevGraph.nodes) :
            (SameNode(i, j) /\ last.prevGraph.nodes[j].code = graphData.nodes[i].code)
            => /\ graphData.nodes[i].x = last.prevGraph.nodes[j].x
               /\ graphData.nodes[i].y = last.prevGraph.nodes[j].y

\* ------------------------------------------------------------------------
\* Output of the Graph Builder
\* ------------------------------------------------------------------------

\* positions of the nodes that carry the id of the file
NodesNamed(graph, filename) == {i \in 1..Len(graph.nodes) : graph.nodes[i].id = fileId(filename)}

\* C24: the graph built from a FileMap has no Semantic edge and no node with an
\* embedding, every edge has both endpoints among its nodes, and a file that is
\* not python contributes exactly one node, of type File, and is touched by no
\* edge; every Function node has an Imports edge to the Module node of a
\* python file of the FileMap, so a FileMap without python files yields only
\* File nodes and no edge.
C24_BuilderOutput ==
    last.op = "build" =>
        /\ ~HasSemanticLink(graphData)
        /\ \A i \in 1..Len(graphData.nodes) : ~Embedded(graphData.nodes[i])
        /\ EdgeEndpointsExist(graphData)
        /\ \A k \in 1..Len(fileMap) :
              ~EndsWith(fileMap[k].name, extPy) =>
                 /\ Cardinality(NodesNamed(graphData, fileMap[k].name)) = 1
                 /\ \A i \in NodesNamed(graphData, fileMap[k].name) :
                       graphData.nodes[i].type = FILE_T /\ graphData.nodes[i].code = fileMap[k].code
                 /\ \A l \in LinkSet(graphData) : ~Touches(l, fileId(fileMap[k].name))
        /\ \A n \in FunctionNodes(graphData) :
              \E k \in 1..Len(fileMap) :
                  /\ EndsWith(fileMap[k].name, extPy)
                  /\ ImportLink(n.label, fileMap[k].name) \in LinkSet(graphData)
        /\ Len(graphData.nodes) >= Len(fileMap)
        /\ (\A k \in 1..Len(fileMap) : ~EndsWith(fileMap[k].name, extPy))
              => Len(graphData.nodes) = Len(fileMap) /\ graphData.links = <<>>

\* C24 witness: the build of a markdown file that starts with a function
\* header is one File node and no edge.
C24_Witness ==
    /\ last.op = "build"
    /\ Len(fileMap) = 1 /\ fileMap[1].name = nMd
    /\ functionRegex(fileMap[1].code[1]) # NoMatch
    /\ Len(graphData.nodes) = 1 /\ graphData.links = <<>>

\* ------------------------------------------------------------------------
\* The FileMap and the stored graph
\* ------------------------------------------------------------------------

\* C25: in every state without a pass in flight and without a pending rebuild
\* the stored graph has the node ids and the node codes, in order, of the graph
\* the Graph Builder derives from the FileMap.
C25_GraphFollowsFileMap ==
    (~pass.active /\ ~rebuildPending) =>
        /\ IdSeq(graphData) = IdSeq(generateGraphFromFiles(fileMap, <<0>>))
        /\ CodeSeq(graphData) = CodeSeq(generateGraphFromFiles(fileMap, <<0>>))

\* the step just taken wrote the FileMap from an upload / a file watcher event
UploadCommitted == last.op = "uploadCommit"

WatcherFired == last.op = "fileChanged"

\* the entries of files under the given names
EntriesOf(files, names) == {files[i] : i \in {k \in 1..Len(files) : files[k].name \in names}}

\* the entries of files under names other than the given ones
EntriesExcept(files, names) == {files[i] : i \in {k \in 1..Len(files) : files[k].name \notin names}}

\* C26: when an upload commits, every entry that the editor or the file
\* watcher wrote while the upload was reading its files, under a name that is
\* not among the uploaded files, is in the FileMap as it was just before the
\* commit; and a file watcher event keeps every entry of the other file names.
C26_NoLostFileMapUpdate ==
    /\ UploadCommitted =>
          EntriesOf(last.prevFiles, last.written \ last.names) \subseteq EntriesOf(fileMap, last.written)
    /\ WatcherFired =>
          EntriesExcept(last.prevFiles, last.names) = EntriesExcept(fileMap, last.names)

\* ------------------------------------------------------------------------
\* Completion of a similarity pass
\* ------------------------------------------------------------------------

\* every request of the pass just ended was answered with a vector
AllSucceeded == \A k \in 1..Cardinality(EligiblePositions(last.passGraph)) : Succeeded(k)

\* the stored graph was, up to the end of the pass, the graph the pass started on
Undisturbed == last.prevGraph = last.passGraph

PythonFunction(n) == n.type = FUNCTION_T /\ n.language = "python"

\* C27: when a pass ends in which every request was answered with a vector and
\* during which the stored graph was not changed, no update is pending: every
\* python Function node is embedded and has isStale = false.
C27_SuccessfulPassLeavesNothingPending ==
    (PassEnded /\ AllSucceeded /\ Undisturbed) =>
        /\ pendingUpdates(graphData) = 0
        /\ \A i \in 1..Len(graphData.nodes) :
              PythonFunction(graphData.nodes[i])
              => Embedded(graphData.nodes[i]) /\ graphData.nodes[i].isStale = StaleFalse

\* C28: every pass that has started eventually ends with the busy flag
\* cleared, and the flag is set only while a pass is in flight.
C28_PassTerminates ==
    /\ [](isCalculatingEmbeddings => pass.active)
    /\ pass.active ~> (~pass.active /\ ~isCalculatingEmbeddings)

\* C28 witness: a pass with two requests has ended, one request answered with
\* a vector and one not, and the busy flag is clear.
C28_Witness ==
    /\ PassEnded /\ ~isCalculatingEmbeddings /\ ~pass.active
    /\ Cardinality(EligiblePositions(last.passGraph)) >= 2
    /\ last.replies # {} /\ ~AllSucceeded

\* ------------------------------------------------------------------------
\* The request/response module alone
\* ------------------------------------------------------------------------

RequestInit ==
    /\ isVSCode = TRUE
    /\ isLoading = FALSE
    /\ fileMap = <<>>
    /\ graphData = EmptyGraph
    /\ rebuildPending = FALSE
    /\ hasInitialEmbedding = FALSE
    /\ isCalculatingEmbeddings = FALSE
    /\ pass = NoPass
    /\ upload = NoUpload
    /\ last = Step("init", EmptyGraph, <<>>)
    /\ embedderReplies = {}
    /\ rpc = NoRpc
    /\ used = 0

RpcStep(op, requestId) == [op |-> op, prevGraph |-> EmptyGraph, rnd |-> <<>>, requestId |-> requestId]

RpcUnchanged ==
    UNCHANGED <<isVSCode, isLoading, fileMap, graphData, rebuildPending, hasInitialEmbedding,
                isCalculatingEmbeddings, pass, upload, embedderReplies, used>>

\* sendRequest: a new id, its timer, its entry in the map, the message to the host
sendRequest ==
    /\ rpc.counter < MaxRequests
    /\ LET requestId == rpc.counter + 1
       IN  /\ rpc' = [rpc EXCEPT !.counter = requestId,
                                 !.pending = @ \cup {requestId},
                                 !.timers = @ \cup {requestId}]
           /\ last' = RpcStep("sendRequest", requestId)
    /\ RpcUnchanged

\* the window dispatches a response message for a request that was sent to
\* the listener; the host answers a request once, the window may receive the
\* message again
Response(requestId, error) ==
    /\ requestId \in 1..rpc.counter
    /\ rpc.posted[requestId] < MaxResponses
    /\ rpc' = [OnMessage(rpc, [requestId |-> requestId, error |-> error])
                  EXCEPT !.posted[requestId] = @ + 1]
    /\ last' = RpcStep("response", requestId)
    /\ RpcUnchanged

\* the timer of a request fires
Timeout(requestId) ==
    /\ requestId \in rpc.timers
    /\ rpc' = OnTimeout(rpc, requestId)
    /\ last' = RpcStep("timeout", requestId)
    /\ RpcUnchanged

RequestNext ==
    \/ sendRequest
    \/ \E requestId \in RequestIds, error \in BOOLEAN : Response(requestId, error)
    \/ \E requestId \in RequestIds : Timeout(requestId)

\* a running timer fires unless it is cleared
RequestSpec ==
    RequestInit /\ [][RequestNext]_vars /\ WF_vars(\E requestId \in RequestIds : Timeout(requestId))

Sent(requestId) == requestId <= rpc.counter

Settled(requestId) == rpc.calls[requestId] # <<>>

\* in the current state: resolve and reject were called at most once in all,
\* by the first response dispatched or timer fired for this id and by nothing
\* else; a settled request is not in the map and has no timer, a sent request
\* that is not settled is in the map with its timer
SettledOnce(requestId) ==
    /\ Len(rpc.calls[requestId]) <= 1
    /\ rpc.calls[requestId] =
          IF rpc.events[requestId] = <<>> THEN <<>> ELSE <<Head(rpc.events[requestId])>>
    /\ Settled(requestId) => requestId \notin rpc.pending /\ requestId \notin rpc.timers
    /\ (Sent(requestId) /\ ~Settled(requestId))
          => requestId \in rpc.pending /\ requestId \in rpc.timers
    /\ ~Sent(requestId) => requestId \notin rpc.pending /\ rpc.events[requestId] = <<>>

\* C29: every request is settled at most once, by the first of a response
\* with its requestId and its timeout, leaves the pending map when it is
\* settled, is not affected by later responses or by responses and timeouts of
\* other ids; and every request that was sent is eventually settled.
C29_RequestSettlesExactlyOnce ==
    /\ [](\A requestId \in RequestIds : SettledOnce(requestId))
    /\ \A requestId \in RequestIds : Sent(requestId) ~> Settled(requestId)

\* C29 witness: one request was settled by a response and received a second
\* response afterwards, another one was settled by its timeout and received a
\* response afterwards.
C29_Witness ==
    \E a, b \in RequestIds :
        /\ Len(rpc.events[a]) >= 2 /\ rpc.calls[a] = <<[how |-> "resolve", by |-> "response"]>>
        /\ Len(rpc.events[b]) >= 2 /\ rpc.calls[b] = <<TimeoutSettlement>>

\* ------------------------------------------------------------------------
\* Editing a function and parsing it back: edits and rebuilds of one python file
\* ------------------------------------------------------------------------

\* the block of f in the file: header alone, with a body, with blank lines
RoundTripBlocksOfF == {<<lineDefF>>, blockF1, <<lineDefF, lineBlank>>,
                       <<lineDefF, lineRet1, lineBlank>>}

\* what follows it: nothing, a top-level line, g's block, a second definition of f
RoundTripSuffixes == {<<>>, <<lineTop>>, blockG1, <<lineDefF, lineCallF>>}

RoundTripTexts ==
    {prefix \o block \o suffix :
        prefix \in {<<>>, <<lineTop>>}, block \in RoundTripBlocksOfF, suffix \in RoundTripSuffixes}

\* lines typed below the header: indented, blank, comment, top-level
TailLines == {lineRet1, lineBlank, lineCommentG, lineTop}

\* longest text typed below the header
MaxTail == 1

TailsUpTo(n) == UNION {[1..k -> TailLines] : k \in 0..n}

\* the texts applied by the edits: f's header and a tail, or g's block
RoundTripEdits == {<<lineDefF>> \o tail : tail \in TailsUpTo(MaxTail)} \cup {blockG1}

\* the workspace has been loaded and built, and the auto-run pass is over
\* without any vector
RoundTripInit ==
    /\ isVSCode = TRUE
    /\ isLoading = FALSE
    /\ \E text \in RoundTripTexts : fileMap = <<FileMapOf(aPy, text), FileMapOf(nMd, textTop)>>
    /\ graphData = MergeGraph(EmptyGraph, generateGraphFromFiles(fileMap, <<0>>))
    /\ rebuildPending = FALSE
    /\ hasInitialEmbedding = TRUE
    /\ isCalculatingEmbeddings = FALSE
    /\ pass = NoPass
    /\ upload = NoUpload
    /\ last = Step("init", EmptyGraph, <<>>)
    /\ embedderReplies = {}
    /\ rpc = NoRpc
    /\ used = 0

RoundTripNext ==
    \/ \E i \in 1..Len(graphData.nodes), newCode \in RoundTripEdits :
          handleCodeChange(graphData.nodes[i].id, newCode)
    \/ \E rnd \in RandomStreams : Rebuild(rnd)

RoundTripSpec == RoundTripInit /\ [][RoundTripNext]_vars

\* the lines of text that are headers of name for the parser
HeadersOf(text, name) == {h \in 1..Len(text) : functionRegex(text[h]) = name}

\* the file of the FileMap before the edit that the edited node is imported from
OwnerText == FileContent(last.prevFiles, CHOOSE name \in OwnerNames : TRUE)

\* code is a block the parser extracts for name: its header, then only lines
\* that are blank, indented, comments or decorators
IsBlockOf(code, name) ==
    /\ functionRegex(code[1]) = name
    /\ \A k \in 2..Len(code) : ~EndsBlock(code[k])

\* the edit just made was of a Function node defined once in its file, with a
\* new code that is a block of that function
RoundTripEdit ==
    /\ Edited /\ EditedNode.type = FUNCTION_T
    /\ Cardinality(OwnerNames) = 1 /\ HasFile(last.prevFiles, CHOOSE name \in OwnerNames : TRUE)
    /\ Cardinality(HeadersOf(OwnerText, EditedNode.label)) = 1
    /\ IsBlockOf(last.newCode, EditedNode.label)

\* the codes of the nodes of the graph with the given id
CodesOf(graph, id) == {graph.nodes[i].code : i \in {k \in 1..Len(graph.nodes) : graph.nodes[k].id = id}}

\* the block of name in text: from its header up to the next line that ends it
ExtractedBlock(text, name) ==
    LET h == CHOOSE i \in HeadersOf(text, name) : TRUE
        ends == {e \in (h + 1)..Len(text) : EndsBlock(text[e])}
        e == IF ends = {} THEN Len(text) + 1
             ELSE CHOOSE x \in ends : \A y \in ends : x <= y
    IN  SubSeq(text, h, e - 1)

\* C30: for a function f defined once in its file and a new code that is a
\* block of f, the rebuild that follows the edit of fn-f stores exactly one
\* node fn-f, and its code is the new code; and when the new code is the block
\* of f as it stands in the file, the edit leaves the FileMap unchanged.
C30_EditParseRoundTrip ==
    /\ []((RoundTripEdit /\ last.newCode = ExtractedBlock(OwnerText, EditedNode.label))
            => fileMap = last.prevFiles)
    /\ [][(RoundTripEdit /\ last'.op = "rebuild")
            => (/\ Cardinality({i \in 1..Len(graphData'.nodes) :
                                  graphData'.nodes[i].id = last.selected}) = 1
                /\ CodesOf(graphData', last.selected) = {last.newCode})]_vars

\* C30 witness: f's block in the middle of its file was replaced by a block
\* that ends with a blank line, and the rebuild stored fn-f and fn-g.
C30_Witness ==
    /\ Rebuilt
    /\ CodesOf(graphData, fnId(nameF)) = {<<lineDefF, lineBlank>>}
    /\ CodesOf(last.prevGraph, fnId(nameF)) = {<<lineDefF, lineBlank>>}
    /\ CodesOf(graphData, fnId(nameG)) = {blockG1}
    /\ \E i \in 1..Len(last.prevGraph.nodes) :
          last.prevGraph.nodes[i].id = fileId(aPy)
          /\ last.prevGraph.nodes[i].code # fileMap[1].code


====
